---- MODULE Spec2Model ----
(***************************************************************************)
(* A model of the zedtopvibes/cms-worker download service: the request     *)
(* router and handlers of src/index.js (plain downloads) and of            *)
(* src/unnamed/part_000 (downloads with per-file counters kept in a KV     *)
(* namespace), over an R2 bucket (r2) and a KV namespace (kv).             *)
(*                                                                         *)
(* JavaScript strings are modelled as sequences of one-character strings,  *)
(* so that substring, lastIndexOf, split, decodeURIComponent and           *)
(* encodeURIComponent are computed as the code computes them.              *)
(***************************************************************************)
EXTENDS Integers, Sequences, FiniteSets, TLC

----------------------------------------------------------------------------
(* JavaScript string helpers                                               *)

\* The printable ASCII characters, code 32 (space) to 126 (~), in order; the
\* double quote, the backslash and the backtick are written by name.
Printable ==
  << " ", "!", "DQUOTE", "#", "$", "%", "&", "'", "(", ")", "*", "+", ",", "-", ".", "/",
     "0", "1", "2", "3", "4", "5", "6", "7", "8", "9", ":", ";", "<", "=", ">", "?",
     "@", "A", "B", "C", "D", "E", "F", "G", "H", "I", "J", "K", "L", "M", "N", "O",
     "P", "Q", "R", "S", "T", "U", "V", "W", "X", "Y", "Z", "[", "BACKSLASH", "]", "^", "_",
     "BACKTICK", "a", "b", "c", "d", "e", "f", "g", "h", "i", "j", "k", "l", "m", "n", "o",
     "p", "q", "r", "s", "t", "u", "v", "w", "x", "y", "z", "{", "|", "}", "~" >>

\* The code of a printable character.
CharCode(c) == 31 + (CHOOSE i \in 1..Len(Printable) : Printable[i] = c)

\* String.fromCharCode for the printable range.
FromCharCode(n) == Printable[n - 31]

\* An optional value: None, or Some(v).
None == << >>

Some(v) == << v >>

\* String.prototype.startsWith
StartsWith(s, p) == Len(s) >= Len(p) /\ SubSeq(s, 1, Len(p)) = p

\* p occurs in s at the 1-based position i.
OccursAt(s, p, i) == i + Len(p) - 1 <= Len(s) /\ SubSeq(s, i, i + Len(p) - 1) = p

\* The 1-based position of the first occurrence of p in s, 0 when there is none.
IndexOf(s, p) ==
  IF \E i \in 1..Len(s) : OccursAt(s, p, i)
  THEN CHOOSE i \in 1..Len(s) : OccursAt(s, p, i) /\ \A j \in 1..(i - 1) : ~OccursAt(s, p, j)
  ELSE 0

\* String.prototype.lastIndexOf for a one-character needle: 0-based, -1 when absent.
LastIndexOf(s, c) ==
  IF \E i \in 1..Len(s) : s[i] = c
  THEN (CHOOSE i \in 1..Len(s) : s[i] = c /\ \A j \in (i + 1)..Len(s) : s[j] # c) - 1
  ELSE -1

\* String.prototype.substring(start): a negative start counts as 0.
Substring(s, start) == SubSeq(s, (IF start < 0 THEN 0 ELSE start) + 1, Len(s))

\* String.prototype.toLowerCase on printable ASCII.
LowerChar(c) ==
  IF CharCode(c) >= 65 /\ CharCode(c) <= 90 THEN FromCharCode(CharCode(c) + 32) ELSE c

ToLowerCase(s) == [i \in 1..Len(s) |-> LowerChar(s[i])]

\* path.split(sep)[1] for a path in which sep occurs: the text between the first
\* occurrence of sep and the next one (or the end of the path).
SplitSecond(path, sep) ==
  LET rest == SubSeq(path, IndexOf(path, sep) + Len(sep), Len(path))
      j == IndexOf(rest, sep)
  IN IF j = 0 THEN rest ELSE SubSeq(rest, 1, j - 1)

HexDigits == << "0", "1", "2", "3", "4", "5", "6", "7", "8", "9", "A", "B", "C", "D", "E", "F" >>

\* A hexadecimal digit in its upper-case form ("a".."f" become "A".."F").
UpperHex(c) ==
  IF CharCode(c) >= 97 /\ CharCode(c) <= 102 THEN FromCharCode(CharCode(c) - 32) ELSE c

IsHex(c) == \E i \in 1..16 : HexDigits[i] = UpperHex(c)

HexValue(c) == (CHOOSE i \in 1..16 : HexDigits[i] = UpperHex(c)) - 1

\* The byte a percent-escape at position i of s stands for.
EscapeCode(s, i) == 16 * HexValue(s[i + 1]) + HexValue(s[i + 2])

\* "%" at position i of s starts a well-formed escape of an ASCII character.
\* (A byte of 128 or more is the start of a multi-byte sequence; alone it is
\* malformed, and decodeURIComponent throws URIError.)
GoodEscape(s, i) ==
  /\ i + 2 <= Len(s)
  /\ IsHex(s[i + 1])
  /\ IsHex(s[i + 2])
  /\ EscapeCode(s, i) < 128

\* decodeURIComponent(s) throws URIError.
DecodeThrows(s) == \E i \in 1..Len(s) : s[i] = "%" /\ ~GoodEscape(s, i)

RECURSIVE DecodeFrom(_, _)
DecodeFrom(s, i) ==
  IF i > Len(s) THEN << >>
  ELSE IF s[i] = "%" THEN << FromCharCode(EscapeCode(s, i)) >> \o DecodeFrom(s, i + 3)
  ELSE << s[i] >> \o DecodeFrom(s, i + 1)

\* decodeURIComponent(s), for an s on which it does not throw.
DecodeURIComponent(s) == DecodeFrom(s, 1)

\* The characters encodeURIComponent leaves as they are.
Unreserved(c) ==
  \/ CharCode(c) >= 48 /\ CharCode(c) <= 57
  \/ CharCode(c) >= 65 /\ CharCode(c) <= 90
  \/ CharCode(c) >= 97 /\ CharCode(c) <= 122
  \/ c \in {"-", "_", ".", "!", "~", "*", "'", "(", ")"}

PercentEscape(c) ==
  << "%", HexDigits[(CharCode(c) \div 16) + 1], HexDigits[(CharCode(c) % 16) + 1] >>

RECURSIVE EncodeFrom(_, _)
EncodeFrom(s, i) ==
  IF i > Len(s) THEN << >>
  ELSE (IF Unreserved(s[i]) THEN << s[i] >> ELSE PercentEscape(s[i])) \o EncodeFrom(s, i + 1)

\* encodeURIComponent(s)
EncodeURIComponent(s) == EncodeFrom(s, 1)

\* The characters the URL pathname setter escapes (the URL standard's path
\* percent-encode set, within printable ASCII); "%" is not one of them.
PathEscaped(c) == c \in {" ", "DQUOTE", "#", "<", ">", "?", "BACKTICK", "{", "}"}

RECURSIVE PathEncodeFrom(_, _)
PathEncodeFrom(s, i) ==
  IF i > Len(s) THEN << >>
  ELSE (IF PathEscaped(s[i]) THEN PercentEscape(s[i]) ELSE << s[i] >>) \o PathEncodeFrom(s, i + 1)

\* What url.pathname reads after `url.pathname = s`.
SetPathname(s) == PathEncodeFrom(s, 1)

\* Number.prototype.toString for a non-negative integer.
RECURSIVE NumberToString(_)
NumberToString(n) ==
  IF n < 10 THEN << HexDigits[n + 1] >> ELSE NumberToString(n \div 10) \o << HexDigits[(n % 10) + 1] >>

IsDigit(c) == CharCode(c) >= 48 /\ CharCode(c) <= 57

\* parseInt(s) for a string that starts with a digit: the leading run of digits.
RECURSIVE ParseDigits(_, _, _)
ParseDigits(s, i, acc) ==
  IF i > Len(s) \/ ~IsDigit(s[i]) THEN acc
  ELSE ParseDigits(s, i + 1, 10 * acc + (CharCode(s[i]) - 48))

\* parseInt yields NaN when the string does not start with a digit.
NaN == -1

ParseInt(s) == IF Len(s) > 0 /\ IsDigit(s[1]) THEN ParseDigits(s, 1, 0) ELSE NaN

----------------------------------------------------------------------------
(* Configuration                                                           *)

\* const ALLOWED_EXTENSIONS
ALLOWED_EXTENSIONS ==
  { << ".", "j", "p", "g" >>, << ".", "p", "n", "g" >>, << ".", "p", "d", "f" >>,
    << ".", "z", "i", "p" >>, << ".", "m", "p", "4" >>, << ".", "m", "p", "3" >> }

\* const AUTH_TOKEN
AUTH_TOKEN == "your-secret-token"

\* The header value `Bearer ${AUTH_TOKEN}`: the scheme with its space, then the token.
Bearer(token) == << "Bearer ", token >>

\* const DEBUG (part_000 only)
DEBUG == TRUE

\* The literals the router and the handlers compare and build paths and keys with.
GeneratePrefix == << "/", "g", "e", "n", "e", "r", "a", "t", "e", "/" >>

DownloadPrefix == << "/", "d", "o", "w", "n", "l", "o", "a", "d", "/" >>

StatsPrefix == << "/", "s", "t", "a", "t", "s", "/" >>

ResetPrefix == << "/", "r", "e", "s", "e", "t", "-", "s", "t", "a", "t", "s", "/" >>

AllStatsPath == << "/", "a", "l", "l", "-", "s", "t", "a", "t", "s" >>

DebugKVPath == << "/", "d", "e", "b", "u", "g", "/", "k", "v" >>

UploadPath == << "/", "u", "p", "l", "o", "a", "d" >>

FilesPath == << "/", "f", "i", "l", "e", "s" >>

RootPath == << "/" >>

\* The counter key prefix 'download:'.
CounterPrefix == << "d", "o", "w", "n", "l", "o", "a", "d", ":" >>

\* `download:${filename}`
CounterKey(filename) == CounterPrefix \o filename

\* testKV's key 'test_kv_functionality'.
TestKey ==
  << "t", "e", "s", "t", "_", "k", "v", "_", "f", "u", "n", "c", "t", "i", "o", "n",
     "a", "l", "i", "t", "y" >>

\* The two worker scripts of the repository.
IndexJs == "src/index.js"

Part000 == "src/unnamed/part_000"

\* isValidFile(filename): the text from the last "." (the whole name when there
\* is none, as substring(-1) is substring(0)), lower-cased, is an allowed extension.
isValidFile(filename) ==
  ToLowerCase(Substring(filename, LastIndexOf(filename, "."))) \in ALLOWED_EXTENSIONS

----------------------------------------------------------------------------
(* Requests and responses                                                  *)

\* A request with no form body.
NoForm == [parsed |-> FALSE, file |-> None, filename |-> None]

\* A multipart form: the 'file' part (None, or Some of a File with its name and
\* bytes) and the 'filename' field (None, or Some string).
Form(file, filename) == [parsed |-> TRUE, file |-> file, filename |-> filename]

File(name, bytes) == [name |-> name, bytes |-> bytes]

Request(method, path, auth, form) ==
  [method |-> method, path |-> path, auth |-> auth, form |-> form]

\* No response yet.
NoResp ==
  [status |-> 0, body |-> << >>, disposition |-> << >>, allowMethods |-> << >>,
   url |-> << >>, filename |-> << >>, downloads |-> -1, key |-> << >>,
   files |-> {}, total |-> -1, success |-> FALSE]

\* new Response(text, { status })
TextResponse(status, text) == [NoResp EXCEPT !.status = status, !.body = << "text", text >>]

\* new Response(JSON.stringify(...)): status 200 unless given.
JsonResponse(status, success) ==
  [NoResp EXCEPT !.status = status, !.body = << "json" >>, !.success = success]

\* What the client gets when the fetch handler's promise rejects: the runtime
\* answers for the worker with an error page of status 500.
Uncaught(error) == [NoResp EXCEPT !.status = 500, !.body = << "uncaught", error >>]

\* A handler that is not waiting for anything (it has answered).
Idle == [pc |-> "done", filename |-> << >>, left |-> {}, acc |-> {}, probe |-> << >>,
         got |-> None, file |-> ""]

\* What a handler's synchronous start yields: a response, or the await it stops at.
Answer(resp) == [resp |-> resp, h |-> Idle]

Await(pc, filename) == [resp |-> NoResp, h |-> [Idle EXCEPT !.pc = pc, !.filename = filename]]

----------------------------------------------------------------------------
(* The handlers up to their first await                                    *)

\* The Authorization header is absent, empty or not `Bearer ${AUTH_TOKEN}`.
Unauthorized_AnyHeader(auth) == auth = None

Unauthorized(auth) == auth = None \/ auth[1] = << >> \/ auth[1] # Bearer(AUTH_TOKEN)

\* generateDownloadUrl(request, env, filename): all of it is synchronous.
generateDownloadUrl(req, filename) ==
  IF filename = << >> \/ ~isValidFile(filename)
  THEN Answer(TextResponse(400, "Invalid file type"))
  ELSE IF AUTH_TOKEN # "" /\ Unauthorized(req.auth)
  THEN Answer(TextResponse(401, "Unauthorized"))
  ELSE Answer([JsonResponse(200, TRUE) EXCEPT
                 !.url = SetPathname(DownloadPrefix \o filename),
                 !.filename = filename])

\* handleDownload(request, env, filename) up to `await env[R2_BUCKET].get(filename)`.
handleDownload(req, filename) ==
  IF filename = << >> \/ ~isValidFile(filename)
  THEN Answer(TextResponse(400, "Invalid file type"))
  ELSE Await("download:get", filename)

\* The filename of an upload: formData.get('filename') || file.name.
\* Reading file.name throws TypeError when there is no 'file' part.
UploadNameThrows(form) ==
  (form.filename = None \/ form.filename[1] = << >>) /\ form.file = None

UploadName(form) ==
  IF form.filename # None /\ form.filename[1] # << >>
  THEN form.filename[1]
  ELSE form.file[1].name

\* handleUpload(request, env) up to `await env[R2_BUCKET].put(filename, file)`.
\* request.formData() rejects when the body is no form; nothing catches that,
\* nor the TypeError of file.name.
handleUpload(req) ==
  IF Unauthorized(req.auth)
  THEN Answer(TextResponse(401, "Unauthorized"))
  ELSE IF ~req.form.parsed \/ UploadNameThrows(req.form)
  THEN Answer(Uncaught("TypeError"))
  ELSE IF req.form.file = None \/ UploadName(req.form) = << >>
  THEN Answer(TextResponse(400, "No file provided"))
  ELSE IF ~isValidFile(UploadName(req.form))
  THEN Answer(TextResponse(400, "Invalid file extension"))
  ELSE [resp |-> NoResp,
        h |-> [Idle EXCEPT !.pc = "upload:put", !.filename = UploadName(req.form),
                           !.file = req.form.file[1].bytes]]

\* The /stats/ route up to `await env.ZED_DOWNLOADS.get(key)`. When the filename
\* cannot be decoded, the catch block decodes it again and throws in its turn.
handleStats(filename) ==
  IF filename = << >>
  THEN Answer(TextResponse(400, "Filename required"))
  ELSE IF DecodeThrows(filename)
  THEN Answer(Uncaught("URIError"))
  ELSE Await("stats:get", filename)

\* resetDownloadCount(env, filename, authHeader) up to `await env.ZED_DOWNLOADS.delete(key)`.
resetDownloadCount(filename, authHeader) ==
  IF Unauthorized(authHeader)
  THEN Answer(TextResponse(401, "Unauthorized"))
  ELSE IF DecodeThrows(filename)
  THEN Answer(TextResponse(500, "Error resetting count"))
  ELSE Await("reset:delete", filename)

\* testKV(env) up to its first put: testValue = 'kv_is_working_' + Date.now().
testKV(now) ==
  [resp |-> NoResp,
   h |-> [Idle EXCEPT !.pc = "kv:put", !.probe = << "kv_is_working_" >> \o NumberToString(now)]]

\* The CORS preflight answer.
Preflight ==
  [NoResp EXCEPT !.status = 200, !.body = << "empty" >>,
                 !.allowMethods = << "GET", "POST", "PUT", "DELETE", "OPTIONS" >>]

\* The documentation page.
DocsPage == [NoResp EXCEPT !.status = 200, !.body = << "html" >>]

NotFound == TextResponse(404, "Not Found")

\* The /generate/ route: decodeURIComponent(filename) is evaluated in fetch,
\* outside any try, and its result handed to generateDownloadUrl.
RouteGenerate(req, filename) ==
  IF DecodeThrows(filename) THEN Answer(Uncaught("URIError"))
  ELSE generateDownloadUrl(req, DecodeURIComponent(filename))

\* The /download/ route, likewise.
RouteDownload(req, filename) ==
  IF DecodeThrows(filename) THEN Answer(Uncaught("URIError"))
  ELSE handleDownload(req, DecodeURIComponent(filename))

\* fetch(request, env) of src/index.js.
FetchIndex(req) ==
  LET path == req.path
      method == req.method
  IN IF method = "OPTIONS" THEN Answer(Preflight)
     ELSE IF StartsWith(path, GeneratePrefix)
     THEN RouteGenerate(req, SplitSecond(path, GeneratePrefix))
     ELSE IF StartsWith(path, DownloadPrefix)
     THEN RouteDownload(req, SplitSecond(path, DownloadPrefix))
     ELSE IF path = UploadPath /\ method = "POST" THEN handleUpload(req)
     ELSE IF path = FilesPath /\ method = "GET" THEN Await("files:list", << >>)
     ELSE IF path = RootPath THEN Answer(DocsPage)
     ELSE Answer(NotFound)

\* fetch(request, env) of src/unnamed/part_000.
FetchPart000(req, now) ==
  LET path == req.path
      method == req.method
  IN IF method = "OPTIONS" THEN Answer(Preflight)
     ELSE IF StartsWith(path, GeneratePrefix)
     THEN RouteGenerate(req, SplitSecond(path, GeneratePrefix))
     ELSE IF StartsWith(path, DownloadPrefix)
     THEN RouteDownload(req, SplitSecond(path, DownloadPrefix))
     ELSE IF StartsWith(path, StatsPrefix)
     THEN handleStats(SplitSecond(path, StatsPrefix))
     ELSE IF path = AllStatsPath /\ method = "GET" THEN Await("allstats:list", << >>)
     ELSE IF path = DebugKVPath /\ method = "GET" THEN testKV(now)
     ELSE IF StartsWith(path, ResetPrefix) /\ method = "POST"
     THEN resetDownloadCount(SplitSecond(path, ResetPrefix), req.auth)
     ELSE IF path = UploadPath /\ method = "POST" THEN handleUpload(req)
     ELSE IF path = FilesPath /\ method = "GET" THEN Await("files:list", << >>)
     ELSE IF path = RootPath /\ method = "GET" THEN Answer(DocsPage)
     ELSE Answer(NotFound)

\* fetch without its preflight branch: an OPTIONS request goes on to the routes,
\* which compare the method with 'GET' and 'POST' only.
Fetch_NoPreflight(worker, req, now) ==
  IF worker = IndexJs THEN FetchIndex([req EXCEPT !.method = "other"])
  ELSE FetchPart000([req EXCEPT !.method = "other"], now)

Fetch(worker, req, now) ==
  IF worker = IndexJs THEN FetchIndex(req) ELSE FetchPart000(req, now)

----------------------------------------------------------------------------
(* State                                                                   *)

VARIABLES
  script,    \* which worker script is deployed: IndexJs or Part000
  r2,        \* the R2 bucket env.media: storage key -> bytes
  kv,        \* the KV namespace env.ZED_DOWNLOADS: key -> string value
  request,   \* the requests sent so far, in the order they were sent
  handler,   \* per request: the await its handler is stopped at
  response,  \* per request: the response, NoResp until there is one
  count,     \* per request: its detached incrementDownloadCount call
  answered,  \* per request: the requests already answered when it was sent
  settled,   \* per request: the requests that were answered and had no increment in
             \* flight when it was sent
  faults     \* per request: the stores ("r2", "kv") that failed a call made for it

vars == << script, r2, kv, request, handler, response, count, answered, settled, faults >>

\* No incrementDownloadCount call.
NoCount == [pc |-> "none", key |-> << >>, newCount |-> 0]

Requests == 1..Len(request)

\* A store that holds nothing.
EmptyStore == [k \in {} |-> << >>]

\* store.get(key): None for null, Some(value) otherwise.
StoreGet(store, key) == IF key \in DOMAIN store THEN Some(store[key]) ELSE None

\* store.put(key, value)
StorePut(store, key, value) ==
  [k \in DOMAIN store \cup {key} |-> IF k = key THEN value ELSE store[k]]

\* store.delete(key)
StoreDelete(store, key) == [k \in DOMAIN store \ {key} |-> store[k]]

\* A value a JavaScript condition takes for true: neither null nor ''.
Truthy(got) == got # None /\ got[1] # << >>

\* A call made for request i to the named store is answered: ok, or with an error.
Called(i, store, ok) ==
  faults' = IF ok THEN faults ELSE [faults EXCEPT ![i] = @ \cup {store}]

\* The handler of request i answers with resp and is done.
Respond(i, resp) ==
  /\ response' = [response EXCEPT ![i] = resp]
  /\ handler' = [handler EXCEPT ![i] = Idle]

\* The handler of request i goes on to its next await.
Continue(i, h) ==
  /\ handler' = [handler EXCEPT ![i] = h]
  /\ UNCHANGED response

\* Strings in the order KV lists keys: by character code, a prefix first.
LexLess(a, b) ==
  \E i \in 1..(Len(b)) :
    /\ \A j \in 1..(i - 1) : j <= Len(a) /\ a[j] = b[j]
    /\ (i > Len(a) \/ CharCode(a[i]) < CharCode(b[i]))

\* The sum of the counts of a set of << key, count >> pairs.
RECURSIVE SumCounts(_)
SumCounts(S) ==
  IF S = {} THEN 0 ELSE LET e == CHOOSE x \in S : TRUE IN e[2] + SumCounts(S \ {e})

----------------------------------------------------------------------------
(* Requests arrive                                                         *)

\* A client sends request r: fetch runs up to its handler's first await (or to
\* its response when it awaits nothing).
Send(r, now) ==
  LET d == Fetch(script, r, now)
  IN /\ request' = Append(request, r)
     /\ handler' = Append(handler, d.h)
     /\ response' = Append(response, d.resp)
     /\ count' = Append(count, NoCount)
     /\ answered' = Append(answered, {j \in Requests : response[j].status # 0})
     /\ settled' = Append(settled, {j \in Requests : /\ response[j].status # 0
                                                     /\ count[j].pc \notin {"get", "put"}})
     /\ faults' = Append(faults, {})
     /\ UNCHANGED << script, r2, kv >>

----------------------------------------------------------------------------
(* Downloads and their counter                                             *)

\* incrementDownloadCount(env, filename) up to `await env.ZED_DOWNLOADS.get(key)`.
StartCount(filename) == [pc |-> "get", key |-> CounterKey(filename), newCount |-> 0]

\* handleDownload's first argument to incrementDownloadCount: the filename the
\* router already decoded is decoded once more.
CountedName(filename) == DecodeURIComponent(filename)

\* handleDownload after `await env[R2_BUCKET].get(filename)`: ok is whether the
\* bucket answered. The second decodeURIComponent is inside the try.
DownloadGet(i, ok) ==
  LET f == handler[i].filename
  IN /\ handler[i].pc = "download:get"
     /\ IF ~ok
        THEN Respond(i, TextResponse(500, "Error retrieving file")) /\ UNCHANGED count
        ELSE IF f \notin DOMAIN r2
        THEN Respond(i, TextResponse(404, "File not found")) /\ UNCHANGED count
        ELSE IF script = Part000 /\ DecodeThrows(f)
        THEN Respond(i, TextResponse(500, "Error retrieving file")) /\ UNCHANGED count
        ELSE /\ Respond(i, [NoResp EXCEPT !.status = 200, !.disposition = f,
                                          !.body = << "bytes", r2[f] >>])
             /\ count' = IF script = Part000
                         THEN [count EXCEPT ![i] = StartCount(CountedName(f))]
                         ELSE count
     /\ Called(i, "r2", ok)
     /\ UNCHANGED << script, r2, kv, request, answered, settled >>

\* The count after the one read: 1 for null or '', else parseInt(currentCount) + 1.
NextCount_PlusTwo(got) ==
  IF ~Truthy(got) THEN 1
  ELSE IF ParseInt(got[1]) = NaN THEN NaN
  ELSE ParseInt(got[1]) + 2

NextCount(got) ==
  IF ~Truthy(got) THEN 1
  ELSE IF ParseInt(got[1]) = NaN THEN NaN
  ELSE ParseInt(got[1]) + 1

\* newCount.toString()
CountString(n) == IF n = NaN THEN << "N", "a", "N" >> ELSE NumberToString(n)

\* incrementDownloadCount after `await env.ZED_DOWNLOADS.get(key)`. A rejected get
\* is rethrown (DEBUG) into the promise, whose .catch logs it.
CountGet(i, ok) ==
  /\ count[i].pc = "get"
  /\ count' = [count EXCEPT ![i] =
                 IF ok THEN [count[i] EXCEPT !.pc = "put",
                                             !.newCount = NextCount(StoreGet(kv, count[i].key))]
                 ELSE [count[i] EXCEPT !.pc = "failed"]]
  /\ Called(i, "kv", ok)
  /\ UNCHANGED << script, r2, kv, request, handler, response, answered, settled >>

\* incrementDownloadCount at `await env.ZED_DOWNLOADS.put(key, newCount.toString())`.
CountPut(i, ok) ==
  /\ count[i].pc = "put"
  /\ kv' = IF ok THEN StorePut(kv, count[i].key, CountString(count[i].newCount)) ELSE kv
  /\ count' = [count EXCEPT ![i].pc = IF ok THEN "done" ELSE "failed"]
  /\ Called(i, "kv", ok)
  /\ UNCHANGED << script, r2, request, handler, response, answered, settled >>

----------------------------------------------------------------------------
(* Statistics                                                              *)

\* count ? parseInt(count) : 0
CountOrZero(got) == IF Truthy(got) THEN ParseInt(got[1]) ELSE 0

\* The /stats/ route after `await env.ZED_DOWNLOADS.get(key)`: 200 either way.
StatsGet(i, ok) ==
  LET name == DecodeURIComponent(handler[i].filename)
      key == CounterKey(name)
  IN /\ handler[i].pc = "stats:get"
     /\ Respond(i, IF ok
                   THEN [JsonResponse(200, TRUE) EXCEPT
                           !.filename = name, !.key = key,
                           !.downloads = CountOrZero(StoreGet(kv, key))]
                   ELSE [JsonResponse(200, FALSE) EXCEPT !.filename = name, !.downloads = 0])
     /\ Called(i, "kv", ok)
     /\ UNCHANGED << script, r2, kv, request, count, answered, settled >>

\* resetDownloadCount after `await env.ZED_DOWNLOADS.delete(key)`.
ResetDelete(i, ok) ==
  LET key == CounterKey(DecodeURIComponent(handler[i].filename))
  IN /\ handler[i].pc = "reset:delete"
     /\ kv' = IF ok THEN StoreDelete(kv, key) ELSE kv
     /\ Respond(i, IF ok
                   THEN [JsonResponse(200, TRUE) EXCEPT !.filename = handler[i].filename]
                   ELSE TextResponse(500, "Error resetting count"))
     /\ Called(i, "kv", ok)
     /\ UNCHANGED << script, r2, request, count, answered, settled >>

\* getAllStats after `await env.ZED_DOWNLOADS.list()`: the loop skips, without
\* awaiting, the keys that do not start with 'download:'.
AllStatsList(i, ok) ==
  LET keys == {k \in DOMAIN kv : StartsWith(k, CounterPrefix)}
  IN /\ handler[i].pc = "allstats:list"
     /\ IF ~ok
        THEN Respond(i, JsonResponse(500, FALSE))
        ELSE IF keys = {}
        THEN Respond(i, [JsonResponse(200, TRUE) EXCEPT !.files = {}, !.total = 0])
        ELSE Continue(i, [handler[i] EXCEPT !.pc = "allstats:get", !.left = keys])
     /\ Called(i, "kv", ok)
     /\ UNCHANGED << script, r2, kv, request, count, answered, settled >>

\* getAllStats after one `await env.ZED_DOWNLOADS.get(key.name)` of its loop, which
\* takes the listed keys in KV's order: parseInt(count || '0') under the key without
\* its prefix.
AllStatsGet(i, ok) ==
  LET left == handler[i].left
      key == CHOOSE k \in left : \A o \in left \ {k} : LexLess(k, o)
      acc == handler[i].acc \cup
               {<< SubSeq(key, Len(CounterPrefix) + 1, Len(key)), CountOrZero(StoreGet(kv, key)) >>}
  IN /\ handler[i].pc = "allstats:get"
     /\ IF ~ok
        THEN Respond(i, JsonResponse(500, FALSE))
        ELSE IF left = {key}
        THEN Respond(i, [JsonResponse(200, TRUE) EXCEPT !.files = acc, !.total = SumCounts(acc)])
        ELSE Continue(i, [handler[i] EXCEPT !.left = left \ {key}, !.acc = acc])
     /\ Called(i, "kv", ok)
     /\ UNCHANGED << script, r2, kv, request, count, answered, settled >>

----------------------------------------------------------------------------
(* The KV self-test                                                        *)

\* testKV after `await env.ZED_DOWNLOADS.put(testKey, testValue)`.
TestKVPut(i, ok) ==
  /\ handler[i].pc = "kv:put"
  /\ kv' = IF ok THEN StorePut(kv, TestKey, handler[i].probe) ELSE kv
  /\ IF ok THEN Continue(i, [handler[i] EXCEPT !.pc = "kv:get"])
     ELSE Respond(i, JsonResponse(500, FALSE))
  /\ Called(i, "kv", ok)
  /\ UNCHANGED << script, r2, request, count, answered, settled >>

\* testKV after `await env.ZED_DOWNLOADS.get(testKey)`.
TestKVGet(i, ok) ==
  /\ handler[i].pc = "kv:get"
  /\ IF ok THEN Continue(i, [handler[i] EXCEPT !.pc = "kv:delete", !.got = StoreGet(kv, TestKey)])
     ELSE Respond(i, JsonResponse(500, FALSE))
  /\ Called(i, "kv", ok)
  /\ UNCHANGED << script, r2, kv, request, count, answered, settled >>

\* testKV after `await env.ZED_DOWNLOADS.delete(testKey)`.
TestKVDelete(i, ok) ==
  /\ handler[i].pc = "kv:delete"
  /\ kv' = IF ok THEN StoreDelete(kv, TestKey) ELSE kv
  /\ Respond(i, IF ok THEN JsonResponse(200, handler[i].got = Some(handler[i].probe))
                ELSE JsonResponse(500, FALSE))
  /\ Called(i, "kv", ok)
  /\ UNCHANGED << script, r2, request, count, answered, settled >>

----------------------------------------------------------------------------
(* Uploads and listings                                                    *)

\* handleUpload after `await env[R2_BUCKET].put(filename, file)`.
UploadPut(i, ok) ==
  LET f == handler[i].filename
  IN /\ handler[i].pc = "upload:put"
     /\ r2' = IF ok THEN StorePut(r2, f, handler[i].file) ELSE r2
     /\ Respond(i, IF ok
                   THEN [JsonResponse(200, TRUE) EXCEPT
                           !.filename = f, !.url = DownloadPrefix \o f]
                   ELSE TextResponse(500, "Upload failed"))
     /\ Called(i, "r2", ok)
     /\ UNCHANGED << script, kv, request, count, answered, settled >>

\* listFiles after `await env[R2_BUCKET].list()`. src/index.js answers with the
\* keys and has no try; part_000 starts one counter read per object (Promise.all).
FilesList(i, ok) ==
  /\ handler[i].pc = "files:list"
  /\ IF script = IndexJs
     THEN Respond(i, IF ok
                     THEN [JsonResponse(200, FALSE) EXCEPT !.files = {<< k, -1 >> : k \in DOMAIN r2}]
                     ELSE Uncaught("Error"))
     ELSE IF ~ok
     THEN Respond(i, TextResponse(500, "Error listing files"))
     ELSE IF DOMAIN r2 = {}
     THEN Respond(i, [JsonResponse(200, TRUE) EXCEPT !.files = {}, !.total = 0])
     ELSE Continue(i, [handler[i] EXCEPT !.pc = "files:get", !.left = DOMAIN r2])
  /\ Called(i, "r2", ok)
  /\ UNCHANGED << script, r2, kv, request, count, answered, settled >>

\* listFiles when `await env.ZED_DOWNLOADS.get(countKey)` of object k is answered;
\* the reads of Promise.all are answered in any order, and the first to fail
\* rejects the whole.
FilesGet(i, k, ok) ==
  LET acc == handler[i].acc \cup {<< k, CountOrZero(StoreGet(kv, CounterKey(k))) >>}
  IN /\ handler[i].pc = "files:get"
     /\ k \in handler[i].left
     /\ IF ~ok
        THEN Respond(i, TextResponse(500, "Error listing files"))
        ELSE IF handler[i].left = {k}
        THEN Respond(i, [JsonResponse(200, TRUE) EXCEPT !.files = acc, !.total = SumCounts(acc)])
        ELSE Continue(i, [handler[i] EXCEPT !.left = @ \ {k}, !.acc = acc])
     /\ Called(i, "kv", ok)
     /\ UNCHANGED << script, r2, kv, request, count, answered, settled >>

----------------------------------------------------------------------------
(* The names, paths and requests of the model                              *)

\* a.pdf
NamePlain == << "a", ".", "p", "d", "f" >>

\* the key a%20b.pdf, escaped
NameEscapedEscape == << "a", "%", "2", "5", "2", "0", "b", ".", "p", "d", "f" >>

\* the key 'a b.pdf', escaped; also the key a%20b.pdf itself
NameEscapedSpace == << "a", "%", "2", "0", "b", ".", "p", "d", "f" >>

\* a b.pdf
NameSpaced == << "a", " ", "b", ".", "p", "d", "f" >>

\* the key a%.pdf, escaped
NameEscapedPercent == << "a", "%", "2", "5", ".", "p", "d", "f" >>

\* a%.pdf: as a key, a literal percent sign; as path text, a malformed escape
NamePercent == << "a", "%", ".", "p", "d", "f" >>

\* the key s/a.pdf, escaped
NameEscapedSlash == << "s", "%", "2", "F", "a", ".", "p", "d", "f" >>

\* s/a.pdf
NameSlash == << "s", "/", "a", ".", "p", "d", "f" >>

\* x/download/a.pdf
NameNested == << "x", "/", "d", "o", "w", "n", "l", "o", "a", "d", "/", "a", ".", "p", "d", "f" >>

\* a.pdf/download/b.exe
NameNestedExe ==
  << "a", ".", "p", "d", "f", "/", "d", "o", "w", "n", "l", "o", "a", "d", "/", "b", ".", "e", "x", "e" >>

\* a.pdf/download/b.pdf
NameNestedMissing ==
  << "a", ".", "p", "d", "f", "/", "d", "o", "w", "n", "l", "o", "a", "d", "/", "b", ".", "p", "d", "f" >>

\* a.exe
NameExe == << "a", ".", "e", "x", "e" >>

\* A.PDF
NameUpper == << "A", ".", "P", "D", "F" >>

\* apdf
NameNoDot == << "a", "p", "d", "f" >>

\* b.pdf
NameMissing == << "b", ".", "p", "d", "f" >>

\* d.zip
NameZip == << "d", ".", "z", "i", "p" >>

Empty == << >>

\* What the bucket holds at the start: five objects, among them keys with a
\* percent sign and with slashes.
InitialObjects ==
  (NamePlain :> "bytes1") @@ (NameEscapedSpace :> "bytes2") @@ (NamePercent :> "bytes3")
    @@ (NameSlash :> "bytes4") @@ (NameNested :> "bytes5")

\* The last path segments clients ask for, as url.pathname gives them.
Segments ==
  { NamePlain, NameEscapedEscape, NameEscapedSpace, NameEscapedPercent, NamePercent,
    NameEscapedSlash, NameSlash, NameNested, NameNestedExe, NameNestedMissing, NameExe,
    NameUpper, NameNoDot, NameMissing, Empty }

\* Counters that earlier downloads have left: two of a.pdf, and one of
\* a%20b.pdf, which is counted under 'download:a b.pdf'.
InitialCounters ==
  (CounterKey(NamePlain) :> NumberToString(2)) @@ (CounterKey(NameSpaced) :> NumberToString(1))

NopePath == << "/", "n", "o", "p", "e" >>

\* Authorization headers: none, the right one, a wrong token, a wrong scheme.
GoodAuth == Some(Bearer(AUTH_TOKEN))

Auths == { None, GoodAuth, Some(Bearer("wrong-token")), Some(<< "bearer ", AUTH_TOKEN >>) }

\* Upload forms.
Forms ==
  { NoForm,
    Form(None, None),
    Form(None, Some(NamePlain)),
    Form(None, Some(NameExe)),
    Form(Some(File(NameMissing, "bytes6")), None),
    Form(Some(File(NameMissing, "bytes6")), Some(Empty)),
    Form(Some(File(Empty, "bytes6")), None),
    Form(Some(File(NameMissing, "bytes6")), Some(NameZip)),
    Form(Some(File(NameMissing, "bytes6")), Some(NameExe)),
    Form(Some(File(NameExe, "bytes6")), None),
    Form(Some(File(NameNoDot, "bytes6")), None),
    Form(Some(File(NameExe, "bytes6")), Some(NamePlain)) }

\* Every request of the router specification: each route with each segment, the
\* routes that look at the Authorization header with each header, uploads with
\* each form, and each route under the methods it does and does not serve.
AllRequests ==
  {Request("GET", GeneratePrefix \o f, a, NoForm) : f \in Segments, a \in {None, GoodAuth}}
    \cup {Request("GET", GeneratePrefix \o f, a, NoForm) : f \in {NamePlain, NameExe}, a \in Auths}
    \cup {Request("GET", DownloadPrefix \o f, None, NoForm) : f \in Segments}
    \cup {Request("GET", StatsPrefix \o f, None, NoForm) : f \in Segments}
    \cup {Request("POST", ResetPrefix \o f, a, NoForm) : f \in Segments, a \in {None, GoodAuth}}
    \cup {Request("POST", ResetPrefix \o f, a, NoForm) : f \in {NamePlain, NameSpaced}, a \in Auths}
    \cup {Request("POST", UploadPath, GoodAuth, f) : f \in Forms}
    \cup {Request("POST", UploadPath, a, Form(Some(File(n, "bytes6")), None)) :
            a \in Auths, n \in {NameMissing, NameExe, NameNoDot}}
    \cup {Request(m, p, GoodAuth, NoForm) :
            m \in {"GET", "POST", "PUT", "OPTIONS"},
            p \in {AllStatsPath, DebugKVPath, UploadPath, FilesPath, RootPath, NopePath,
                   GeneratePrefix \o NamePlain, DownloadPrefix \o NamePlain,
                   StatsPrefix \o NamePlain, ResetPrefix \o NamePlain}}

\* The requests of the traffic specification: downloads, statistics, resets, listings and
\* KV self-tests, for the keys a.pdf, a%20b.pdf and 'a b.pdf'.
CoreRequests ==
  {Request("GET", DownloadPrefix \o f, None, NoForm) : f \in {NamePlain, NameEscapedEscape}}
    \cup {Request("GET", StatsPrefix \o f, None, NoForm) :
            f \in {NamePlain, NameEscapedEscape, NameEscapedSpace}}
    \cup {Request("POST", ResetPrefix \o NamePlain, a, NoForm) : a \in {None, GoodAuth}}
    \cup {Request("POST", ResetPrefix \o NameEscapedSpace, GoodAuth, NoForm)}
    \cup {Request("GET", FilesPath, None, NoForm), Request("GET", DebugKVPath, None, NoForm)}

\* The download requests for the two objects of the traffic specification.
RaceRequests ==
  {Request("GET", DownloadPrefix \o f, None, NoForm) : f \in {NamePlain, NameEscapedEscape}}

\* What the bucket holds at the start of the traffic specification.
CoreObjects == (NamePlain :> "bytes1") @@ (NameEscapedSpace :> "bytes2")

----------------------------------------------------------------------------
(* Specifications                                                          *)

\* The number of requests of the traffic specification.
MaxRequests == 3

\* The number of requests of the router specification.
MaxRouterRequests == 1

\* The number of overlapping downloads.
MaxRaceRequests == 2

\* The readings of Date.now().
MaxClock == 2

Clock == 1..MaxClock

InitStores(worker, objects, counters) ==
  /\ script = worker
  /\ r2 = objects
  /\ kv = counters
  /\ request = << >>
  /\ handler = << >>
  /\ response = << >>
  /\ count = << >>
  /\ answered = << >>
  /\ settled = << >>
  /\ faults = << >>

\* The traffic specification runs part_000, the script that counts downloads.
Init == InitStores(Part000, CoreObjects, EmptyStore)

\* The router specification runs either script, on a namespace that is empty or holds
\* the counters that two downloads of a.pdf and one of a%20b.pdf leave.
InitRouter ==
  \E w \in {IndexJs, Part000}, c \in {EmptyStore, InitialCounters} :
    InitStores(w, InitialObjects, c)

\* The steps of the handlers the traffic specification exercises; ok is whether the
\* store answered the call the handler awaits.
Next ==
  \/ \E r \in CoreRequests, now \in Clock : Len(request) < MaxRequests /\ Send(r, now)
  \/ \E i \in Requests, ok \in BOOLEAN : DownloadGet(i, ok)
  \/ \E i \in Requests, ok \in BOOLEAN : CountGet(i, ok)
  \/ \E i \in Requests, ok \in BOOLEAN : CountPut(i, ok)
  \/ \E i \in Requests, ok \in BOOLEAN : StatsGet(i, ok)
  \/ \E i \in Requests, ok \in BOOLEAN : ResetDelete(i, ok)
  \/ \E i \in Requests, ok \in BOOLEAN : TestKVPut(i, ok)
  \/ \E i \in Requests, ok \in BOOLEAN : TestKVGet(i, ok)
  \/ \E i \in Requests, ok \in BOOLEAN : TestKVDelete(i, ok)
  \/ \E i \in Requests, ok \in BOOLEAN : FilesList(i, ok)
  \/ \E i \in Requests, ok \in BOOLEAN : \E k \in handler[i].left : FilesGet(i, k, ok)

NextRouter ==
  \/ \E r \in AllRequests, now \in Clock : Len(request) < MaxRouterRequests /\ Send(r, now)
  \/ \E i \in Requests, ok \in BOOLEAN : DownloadGet(i, ok)
  \/ \E i \in Requests, ok \in BOOLEAN : CountGet(i, ok)
  \/ \E i \in Requests, ok \in BOOLEAN : CountPut(i, ok)
  \/ \E i \in Requests, ok \in BOOLEAN : StatsGet(i, ok)
  \/ \E i \in Requests, ok \in BOOLEAN : ResetDelete(i, ok)
  \/ \E i \in Requests, ok \in BOOLEAN : TestKVPut(i, ok)
  \/ \E i \in Requests, ok \in BOOLEAN : TestKVGet(i, ok)
  \/ \E i \in Requests, ok \in BOOLEAN : TestKVDelete(i, ok)
  \/ \E i \in Requests, ok \in BOOLEAN : FilesList(i, ok)
  \/ \E i \in Requests, ok \in BOOLEAN : \E k \in handler[i].left : FilesGet(i, k, ok)
  \/ \E i \in Requests, ok \in BOOLEAN : AllStatsList(i, ok)
  \/ \E i \in Requests, ok \in BOOLEAN : AllStatsGet(i, ok)
  \/ \E i \in Requests, ok \in BOOLEAN : UploadPut(i, ok)

\* Overlapping downloads alone: the download requests for the objects of the
\* bucket, their reads of the bucket and their increments.
NextRace ==
  \/ \E r \in RaceRequests, now \in Clock : Len(request) < MaxRaceRequests /\ Send(r, now)
  \/ \E i \in Requests, ok \in BOOLEAN : DownloadGet(i, ok)
  \/ \E i \in Requests, ok \in BOOLEAN : CountGet(i, ok)
  \/ \E i \in Requests, ok \in BOOLEAN : CountPut(i, ok)

Spec == Init /\ [][Next]_vars

SpecRace == Init /\ [][NextRace]_vars

SpecRouter == InitRouter /\ [][NextRouter]_vars

----------------------------------------------------------------------------
(* The terms of the properties                                             *)

\* The text of a path after a route prefix.
PathTail(path, prefix) == SubSeq(path, Len(prefix) + 1, Len(path))

\* Request r is on the route with this prefix and its path percent-decodes to
\* the prefix followed by the name k.
AsksFor(r, prefix, k) ==
  /\ StartsWith(r.path, prefix)
  /\ ~DecodeThrows(PathTail(r.path, prefix))
  /\ DecodeURIComponent(PathTail(r.path, prefix)) = k

\* Request i has been answered.
Answered(i) == response[i].status # 0

\* Request i is a download request for the key k that returned 200.
Downloaded(i, k) ==
  /\ request[i].method = "GET"
  /\ AsksFor(request[i], DownloadPrefix, k)
  /\ response[i].status = 200

\* Request i is a reset request for the key k, with the valid token, that
\* returned its success response.
ResetDone(i, k) ==
  /\ request[i].method = "POST"
  /\ AsksFor(request[i], ResetPrefix, k)
  /\ request[i].auth = GoodAuth
  /\ response[i].status = 200

\* Request i is a GET /stats request for the key k that has been answered.
StatsAnswered(i, k) ==
  /\ request[i].method = "GET"
  /\ AsksFor(request[i], StatsPrefix, k)
  /\ Answered(i)

\* The requests up to i were sent one after another: each only after every
\* earlier one had been answered.
OneAfterAnother(i) == \A j \in 1..i : answered[j] = 1..(j - 1)

\* The requests up to i were sent one after another, each only after every
\* earlier one had been answered and the increment it started had finished.
OneAfterAnotherSettled(i) == \A j \in 1..i : settled[j] = 1..(j - 1)

\* No store has failed a call made for one of the requests up to i.
NoFaults(i) == \A j \in 1..i : faults[j] = {}

\* The names that requests of the model ask for.
Names ==
  { NamePlain, NameEscapedSpace, NameSpaced, NamePercent, NameSlash, NameNested,
    NameNestedExe, NameNestedMissing, NameExe, NameUpper, NameNoDot, NameMissing, NameZip }

----------------------------------------------------------------------------
(* Properties of the specification document                                *)

\* C1: for every key k of the bucket and every N >= 1, after N download
\* requests for k that each returned 200, sent one after another (each after the
\* response to the one before) with no reset in between, a following
\* GET /stats/{k} reports downloads = N. (Stated from an empty namespace, with
\* no store failing.)
C1_SequentialDownloadsCounted ==
  \A i \in Requests : \A k \in DOMAIN r2 :
    LET downloads == {j \in 1..(i - 1) : Downloaded(j, k)}
    IN ( /\ script = Part000
         /\ StatsAnswered(i, k)
         /\ OneAfterAnother(i)
         /\ NoFaults(i)
         /\ \A j \in 1..(i - 1) : ~StartsWith(request[j].path, ResetPrefix)
         /\ Cardinality(downloads) >= 1 )
       => response[i].downloads = Cardinality(downloads)

\* C1 in the case most favourable to it: each request is sent only after the
\* one before was answered and the increment it started had finished.
C1_CountedOnceIncrementsFinish ==
  \A i \in Requests : \A k \in DOMAIN r2 :
    LET downloads == {j \in 1..(i - 1) : Downloaded(j, k)}
    IN ( /\ script = Part000
         /\ StatsAnswered(i, k)
         /\ OneAfterAnotherSettled(i)
         /\ NoFaults(i)
         /\ \A j \in 1..(i - 1) : ~StartsWith(request[j].path, ResetPrefix)
         /\ Cardinality(downloads) >= 1 )
       => response[i].downloads = Cardinality(downloads)

\* The name a counter key counts: the key without 'download:'.
CountedFile(c) == SubSeq(c, Len(CounterPrefix) + 1, Len(c))

\* The counter keys of a namespace.
Counters(store) == {c \in DOMAIN store : StartsWith(c, CounterPrefix)}

\* This step is a reset that deletes the counter key c.
ResetDeletes(c) ==
  \E i \in Requests :
    /\ handler[i].pc = "reset:delete"
    /\ handler'[i].pc = "done"
    /\ c = CounterKey(DecodeURIComponent(handler[i].filename))
    /\ c \notin DOMAIN kv'

\* C2: the counter stored under download:k is absent until a download of k has
\* returned 200, and from then on its value never decreases from one state to
\* the next except by a reset that deletes it, under any interleaving of
\* download, stats, reset, list and kv-selftest requests.
C2_CounterAbsentThenMonotone ==
  [][ /\ \A c \in Counters(kv') \ Counters(kv) :
           \E d \in Requests : Downloaded(d, CountedFile(c))
      /\ \A c \in Counters(kv) :
           \/ c \in DOMAIN kv' /\ ParseInt(kv'[c]) >= ParseInt(kv[c])
           \/ ResetDeletes(c) ]_vars

\* C2's second half alone: a counter never decreases except by a reset that
\* deletes it.
C2_CounterNeverDecreases ==
  [][ \A c \in Counters(kv) :
        \/ c \in DOMAIN kv' /\ ParseInt(kv'[c]) >= ParseInt(kv[c])
        \/ ResetDeletes(c) ]_vars

\* C5: once a POST /reset-stats/{k} with the valid token has returned its
\* success response, a GET /stats/{k} sent after that response, with no download
\* of k requested after the reset, reports downloads = 0, also when a download of
\* k completed shortly before the reset. (Stated with no store failing.)
C5_ResetThenStatsReportsZero ==
  \A i \in Requests : \A k \in Names : \A j \in answered[i] :
    ( /\ script = Part000
      /\ StatsAnswered(i, k)
      /\ ResetDone(j, k)
      /\ NoFaults(Len(request))
      /\ \A d \in (j + 1)..Len(request) :
           ~(request[d].method = "GET" /\ AsksFor(request[d], DownloadPrefix, k)) )
    => response[i].downloads = 0

\* C5 in the case most favourable to it: everything sent before the reset was
\* answered, and every increment started before it had finished, when the reset
\* was sent.
C5_ResetThenStatsReportsZeroSettled ==
  \A i \in Requests : \A k \in Names : \A j \in answered[i] :
    ( /\ script = Part000
      /\ StatsAnswered(i, k)
      /\ ResetDone(j, k)
      /\ NoFaults(Len(request))
      /\ settled[j] = 1..(j - 1)
      /\ \A d \in (j + 1)..Len(request) :
           ~(request[d].method = "GET" /\ AsksFor(request[d], DownloadPrefix, k)) )
    => response[i].downloads = 0

\* Request i is a GET /download request whose path percent-decodes to the key k.
DownloadOf(i, k) ==
  /\ request[i].method = "GET"
  /\ AsksFor(request[i], DownloadPrefix, k)

\* C3: for every key k with an allowed extension that the bucket holds, a GET
\* /download/ request whose path percent-decodes to k returns 200, the header
\* Content-Disposition: attachment; filename="k" and the stored bytes, also for
\* keys with '/' or a literal '%'. (Stated of answered requests whose read of
\* the bucket did not fail.)
C3_DownloadReturnsStoredObject ==
  \A i \in Requests : \A k \in DOMAIN r2 :
    ( /\ script = Part000
      /\ DownloadOf(i, k)
      /\ Answered(i)
      /\ "r2" \notin faults[i] )
    => /\ response[i].status = 200
       /\ response[i].disposition = k
       /\ response[i].body = << "bytes", r2[k] >>

\* C4: a download of an existing file returns 200 with the file's bytes whatever
\* the counter store does: whether the increment's read or write fails, or never
\* completes, the answer is 200 and not an error.
C4_DownloadIndependentOfCounterStore ==
  \A i \in Requests : \A k \in DOMAIN r2 :
    ( /\ script = Part000
      /\ DownloadOf(i, k)
      /\ Answered(i)
      /\ "r2" \notin faults[i] )
    => /\ response[i].status = 200
       /\ response[i].body = << "bytes", r2[k] >>
       /\ count[i].pc \in {"get", "put", "done", "failed"}

\* Request i is a POST /reset-stats/ request whose Authorization header is
\* absent or is not exactly 'Bearer <configured-token>'.
UnauthorizedReset(rs, i) ==
  /\ rs[i].method = "POST"
  /\ StartsWith(rs[i].path, ResetPrefix)
  /\ rs[i].auth # Some(<< "Bearer ", AUTH_TOKEN >>)

\* C6: a POST /reset-stats/{k} whose Authorization header is absent or differs
\* from 'Bearer <configured-token>' returns 401 and leaves every counter
\* unchanged: the step that takes the request answers it 401 without a call to
\* the counter store, and its handler does nothing afterwards.
C6_UnauthorizedResetChangesNothing ==
  [][ /\ \A i \in DOMAIN request' \ DOMAIN request :
           (script = Part000 /\ UnauthorizedReset(request', i))
           => /\ response'[i].status = 401
              /\ handler'[i].pc = "done"
              /\ kv' = kv
      /\ \A i \in DOMAIN request :
           (script = Part000 /\ UnauthorizedReset(request, i))
           => /\ response'[i] = response[i]
              /\ handler'[i] = handler[i]
              /\ count'[i] = count[i] ]_vars

\* A reset request with a wrong token has been answered 401 while the counter
\* store holds counters.
C6_Witness ==
  \E i \in Requests :
    /\ script = Part000
    /\ UnauthorizedReset(request, i)
    /\ request[i].auth = Some(Bearer("wrong-token"))
    /\ response[i].status = 401
    /\ DOMAIN kv # {}

\* The endpoint table: the (method, path) pairs the worker serves.
InEndpointTable(method, path) ==
  \/ method = "GET" /\ StartsWith(path, GeneratePrefix)
  \/ method = "GET" /\ StartsWith(path, DownloadPrefix)
  \/ method = "POST" /\ path = UploadPath
  \/ method = "GET" /\ path = FilesPath
  \/ method = "GET" /\ StartsWith(path, StatsPrefix)
  \/ method = "GET" /\ path = AllStatsPath
  \/ method = "POST" /\ StartsWith(path, ResetPrefix)
  \/ method = "GET" /\ path = DebugKVPath
  \/ method = "GET" /\ path = RootPath

\* C7: a request whose (method, path) pair is not in the endpoint table and
\* whose method is not OPTIONS returns 404 and runs no handler; a non-GET request
\* to /download/{k}, /generate/{k} or /stats/{k} returns 404 and starts no
\* increment.
C7_OffTableRequestsNotFound ==
  \A i \in Requests :
    ( /\ ~InEndpointTable(request[i].method, request[i].path)
      /\ request[i].method # "OPTIONS" )
    => /\ response[i].status = 404
       /\ handler[i].pc = "done"
       /\ count[i].pc = "none"

\* The extension of a filename: the text from its last '.', lower-cased; none
\* when the name has no '.'.
HasAllowedExtension(f) ==
  \E e \in ALLOWED_EXTENSIONS :
    /\ Len(f) >= Len(e)
    /\ ToLowerCase(SubSeq(f, Len(f) - Len(e) + 1, Len(f))) = e
    /\ \A j \in (Len(f) - Len(e) + 2)..Len(f) : f[j] # "."

\* The filename an upload names: the 'filename' field, or else the file's name.
UploadOf(r, f) ==
  /\ r.method = "POST"
  /\ r.path = UploadPath
  /\ r.form.parsed
  /\ r.form.file # None
  /\ f # << >>
  /\ IF r.form.filename # None /\ r.form.filename[1] # << >>
     THEN r.form.filename[1] = f
     ELSE r.form.file[1].name = f

\* Request r is for an endpoint that validates the extension, with filename f.
ValidatedFor(r, f) ==
  \/ r.method = "GET" /\ AsksFor(r, GeneratePrefix, f)
  \/ r.method = "GET" /\ AsksFor(r, DownloadPrefix, f)
  \/ UploadOf(r, f)

\* Request i was answered with this status when it was taken, without a call
\* to a store.
RefusedWith(i, status) ==
  /\ response[i].status = status
  /\ handler[i].pc = "done"
  /\ count[i].pc = "none"

\* C8: for every filename with an extension outside the allow-list or with no
\* '.', each endpoint that validates the extension (/generate/{filename},
\* /download/{filename}, /upload) returns 400 whatever the Authorization header
\* is, and neither reads nor writes the object store or the counter store.
C8_InvalidExtensionRejected ==
  \A i \in Requests : \A f \in Names :
    (ValidatedFor(request[i], f) /\ ~HasAllowedExtension(f)) => RefusedWith(i, 400)

\* C8 in the case most favourable to it: an upload without the valid token may
\* be answered 401 instead, before its filename is looked at.
C8_InvalidExtensionRejectedOrUnauthorized ==
  \A i \in Requests : \A f \in Names :
    (ValidatedFor(request[i], f) /\ ~HasAllowedExtension(f))
    => \/ RefusedWith(i, 400)
       \/ /\ request[i].path = UploadPath
          /\ request[i].auth # Some(<< "Bearer ", AUTH_TOKEN >>)
          /\ RefusedWith(i, 401)

\* C9: with a token configured, GET /generate/{k} for a key k with an allowed
\* extension returns, when the Authorization header is 'Bearer <token>', a 200
\* JSON descriptor whose url has the path of k's download, /download/{k}, and 401
\* when the header is absent or different; either way without a call to a store.
C9_GenerateDescribesDownload ==
  \A i \in Requests : \A k \in Names :
    ( /\ request[i].method = "GET"
      /\ AsksFor(request[i], GeneratePrefix, k)
      /\ HasAllowedExtension(k) )
    => IF request[i].auth = Some(<< "Bearer ", AUTH_TOKEN >>)
       THEN /\ RefusedWith(i, 200)
            /\ response[i].body = << "json" >>
            /\ AsksFor([path |-> response[i].url], DownloadPrefix, k)
       ELSE RefusedWith(i, 401)

\* Request i is an upload with the valid token, and a form.
AuthorizedUpload(i) ==
  /\ request[i].method = "POST"
  /\ request[i].path = UploadPath
  /\ request[i].auth = Some(<< "Bearer ", AUTH_TOKEN >>)
  /\ request[i].form.parsed

\* C10: an authorized POST /upload whose form has no 'file' part returns 400,
\* with a 'filename' field and without one, and writes nothing to the object
\* store; an authorized upload with a file but no usable filename returns 400 too.
C10_UploadWithoutFileOrNameRejected ==
  \A i \in Requests :
    ( /\ AuthorizedUpload(i)
      /\ \/ request[i].form.file = None
         \/ /\ request[i].form.filename \in {None, Some(<< >>)}
            /\ request[i].form.file[1].name = << >> )
    => RefusedWith(i, 400)

\* Request i of the requests rs is a GET /stats/{filename} with a non-empty
\* filename.
StatsRequest(rs, i) ==
  /\ rs[i].method = "GET"
  /\ StartsWith(rs[i].path, StatsPrefix)
  /\ PathTail(rs[i].path, StatsPrefix) # << >>

\* Request i gets its response in this step.
AnsweredNow(i) ==
  /\ i \in DOMAIN response'
  /\ response'[i].status # 0
  /\ i \in DOMAIN response => response[i].status = 0

\* The count stored for the name k: 0 when there is none.
StoredCount(k) ==
  IF CounterPrefix \o k \in DOMAIN kv /\ kv[CounterPrefix \o k] # << >>
  THEN ParseInt(kv[CounterPrefix \o k])
  ELSE 0

\* C11: GET /stats/{filename} with a non-empty filename always answers 200:
\* with the stored count (0 when the counter is absent) when the read succeeds,
\* and with downloads = 0 and an error in the payload when the counter store
\* throws or the filename cannot be decoded; it never changes the counter store.
C11_StatsAlwaysAnswers200 ==
  [][ \A i \in DOMAIN request' :
        (script = Part000 /\ StatsRequest(request', i) /\ AnsweredNow(i))
        => LET tail == PathTail(request'[i].path, StatsPrefix)
           IN /\ response'[i].status = 200
              /\ response'[i].body = << "json" >>
              /\ kv' = kv
              /\ IF DecodeThrows(tail) \/ "kv" \in faults'[i]
                 THEN response'[i].downloads = 0 /\ ~response'[i].success
                 ELSE /\ response'[i].downloads = StoredCount(DecodeURIComponent(tail))
                      /\ response'[i].success ]_vars

\* C11 for the filenames that can be decoded.
C11_StatsOfDecodableNames ==
  [][ \A i \in DOMAIN request' :
        ( /\ script = Part000 /\ StatsRequest(request', i) /\ AnsweredNow(i)
          /\ ~DecodeThrows(PathTail(request'[i].path, StatsPrefix)) )
        => LET tail == PathTail(request'[i].path, StatsPrefix)
           IN /\ response'[i].status = 200
              /\ response'[i].body = << "json" >>
              /\ kv' = kv
              /\ IF "kv" \in faults'[i]
                 THEN response'[i].downloads = 0 /\ ~response'[i].success
                 ELSE /\ response'[i].downloads = StoredCount(DecodeURIComponent(tail))
                      /\ response'[i].success ]_vars

\* Request i of the requests rs is a GET /download request whose path
\* percent-decodes to the key k.
DownloadRequest(rs, i, k) ==
  /\ rs[i].method = "GET"
  /\ AsksFor(rs[i], DownloadPrefix, k)

\* C12: a GET /download/{k} for a key k with an allowed extension for which
\* the object store holds no object returns 404, starts no counter increment and
\* leaves the counter store unchanged. (Stated of requests whose read of the
\* bucket did not fail.)
C12_MissingObjectNotFound ==
  [][ \A i \in DOMAIN request' : \A k \in Names \ DOMAIN r2 :
        ( /\ DownloadRequest(request', i, k)
          /\ HasAllowedExtension(k)
          /\ AnsweredNow(i)
          /\ "r2" \notin faults'[i] )
        => /\ response'[i].status = 404
           /\ count'[i].pc = "none"
           /\ kv' = kv ]_vars

\* C12 for the keys that do not contain the text '/download/'.
C12_MissingPlainObjectNotFound ==
  [][ \A i \in DOMAIN request' : \A k \in Names \ DOMAIN r2 :
        ( /\ DownloadRequest(request', i, k)
          /\ HasAllowedExtension(k)
          /\ \A j \in 1..Len(k) : ~OccursAt(k, DownloadPrefix, j)
          /\ AnsweredNow(i)
          /\ "r2" \notin faults'[i] )
        => /\ response'[i].status = 404
           /\ count'[i].pc = "none"
           /\ kv' = kv ]_vars

\* The methods a comma-separated Access-Control-Allow-Methods value lists.
Allows(allowMethods, method) == \E j \in 1..Len(allowMethods) : allowMethods[j] = method

\* C13: an OPTIONS request to any path returns an empty body with
\* Access-Control-Allow-Methods containing GET, POST and OPTIONS before any route
\* is matched: it is answered in the step that takes it, no handler and no
\* increment runs for it and neither store is read or written.
C13_PreflightShortCircuits ==
  [][ /\ \A i \in DOMAIN request' \ DOMAIN request :
           request'[i].method = "OPTIONS"
           => /\ response'[i].status = 200
              /\ response'[i].body = << "empty" >>
              /\ \A m \in {"GET", "POST", "OPTIONS"} : Allows(response'[i].allowMethods, m)
              /\ handler'[i].pc = "done"
              /\ count'[i].pc = "none"
              /\ r2' = r2
              /\ kv' = kv
      /\ \A i \in DOMAIN request :
           request[i].method = "OPTIONS"
           => /\ response'[i] = response[i]
              /\ handler'[i] = handler[i]
              /\ count'[i] = count[i]
              /\ faults'[i] = {} ]_vars

\* An OPTIONS request to /reset-stats/a.pdf with the valid token has been
\* answered, and the counter of a.pdf is still stored.
C13_Witness ==
  \E i \in Requests :
    /\ request[i].method = "OPTIONS"
    /\ request[i].path = ResetPrefix \o NamePlain
    /\ request[i].auth = Some(<< "Bearer ", AUTH_TOKEN >>)
    /\ response[i].body = << "empty" >>
    /\ CounterPrefix \o NamePlain \in DOMAIN kv

\* Requests i and j are two downloads of the same file that returned 200, and
\* no other request is a download of that file.
TwoDownloads(i, j) ==
  /\ i < j
  /\ \E k \in DOMAIN r2 :
       /\ Downloaded(i, k)
       /\ Downloaded(j, k)
       /\ \A d \in Requests \ {i, j} : ~AsksFor(request[d], DownloadPrefix, k)

\* C14: of two overlapping downloads of the same file, whose counter is absent
\* at the start, the final stored counter is 1 or 2 in every interleaving: when
\* both increments have finished, no call to the counter store having failed,
\* both have written the same key and its value is 1 or 2.
C14_TwoDownloadsCountOneOrTwo ==
  \A i, j \in Requests :
    ( /\ TwoDownloads(i, j)
      /\ count[i].pc = "done"
      /\ count[j].pc = "done"
      /\ "kv" \notin faults[i] \cup faults[j] )
    => /\ count[i].key = count[j].key
       /\ count[i].key \in DOMAIN kv
       /\ kv[count[i].key] \in {<< "1" >>, << "2" >>}

\* The interleaving of C14 in which an update is lost: both downloads returned
\* 200, both increments read the absent counter (each computed 1) before either
\* wrote, both have written, and the stored counter is 1.
C14_Witness ==
  \E i, j \in Requests :
    /\ TwoDownloads(i, j)
    /\ i \notin settled[j]
    /\ count[i].pc = "done" /\ count[i].newCount = 1
    /\ count[j].pc = "done" /\ count[j].newCount = 1
    /\ faults[i] \cup faults[j] = {}
    /\ kv[count[i].key] = << "1" >>

\* Request i of the requests rs is a successful GET /files.
FilesRequest(rs, i) == rs[i].method = "GET" /\ rs[i].path = FilesPath

\* The counter key of the storage key k: 'download:' followed by k.
CounterKeyOf(k) == CounterPrefix \o k

\* C15: for every storage key k, the counter key that a successful download of k
\* writes is exactly 'download:' followed by k, and it is the key that GET /stats
\* for k reads, POST /reset-stats for k deletes and GET /files reads for the
\* listed object k, also for keys that contain a percent-escape sequence.
C15_OneCounterKeyPerFile ==
  [][ \A i \in Requests : \A k \in DOMAIN r2 :
        /\ (Downloaded(i, k) /\ count[i].pc = "put" /\ count'[i].pc = "done")
           => /\ DOMAIN kv' = DOMAIN kv \cup {CounterKeyOf(k)}
              /\ \A c \in DOMAIN kv \ {CounterKeyOf(k)} : kv'[c] = kv[c]
        /\ (StatsRequest(request, i) /\ AsksFor(request[i], StatsPrefix, k)
              /\ AnsweredNow(i) /\ faults'[i] = {})
           => /\ response'[i].key = CounterKeyOf(k)
              /\ response'[i].downloads = StoredCount(k)
        /\ (ResetDone(i, k)' /\ AnsweredNow(i))
           => /\ DOMAIN kv' = DOMAIN kv \ {CounterKeyOf(k)}
              /\ \A c \in DOMAIN kv' : kv'[c] = kv[c]
        /\ (FilesRequest(request, i) /\ response[i].status = 0 /\ faults'[i] = {})
           => \A e \in (handler'[i].acc \cup response'[i].files) \ handler[i].acc :
                e[2] = StoredCount(e[1]) ]_vars

\* C15 without its first part: the keys that /stats reads, /reset-stats deletes
\* and /files reads.
C15_ReadersAgreeOnCounterKey ==
  [][ \A i \in Requests : \A k \in DOMAIN r2 :
        /\ (StatsRequest(request, i) /\ AsksFor(request[i], StatsPrefix, k)
              /\ AnsweredNow(i) /\ faults'[i] = {})
           => /\ response'[i].key = CounterKeyOf(k)
              /\ response'[i].downloads = StoredCount(k)
        /\ (ResetDone(i, k)' /\ AnsweredNow(i))
           => /\ DOMAIN kv' = DOMAIN kv \ {CounterKeyOf(k)}
              /\ \A c \in DOMAIN kv' : kv'[c] = kv[c]
        /\ (FilesRequest(request, i) /\ response[i].status = 0 /\ faults'[i] = {})
           => \A e \in (handler'[i].acc \cup response'[i].files) \ handler[i].acc :
                e[2] = StoredCount(e[1]) ]_vars
====
